---- MODULE Spec2Model ----
(***************************************************************************)
(* State-machine model of the x-scraper repository.                        *)
(*                                                                         *)
(*   get_followers.py : main -> get_followers / get_followers_multiple     *)
(*                      (specification Spec)                               *)
(*   add_account.py   : add_all_from_file -> add_account_with_cookies      *)
(*                      (specification SpecAccounts)                       *)
(*                                                                         *)
(* The twscrape objects the scripts drive (the account pool, the paginated *)
(* followers generator) are not part of the sources; they are modelled     *)
(* from the written specification (Credential Store, Session Activator,    *)
(* Paginated Collector) and are marked as such where they are defined.     *)
(***************************************************************************)
EXTENDS Integers, Sequences, FiniteSets, TLC

\* ------------------------------------------------------------------ bounds
MaxTargets == 3     \* longest list of targets given on the command line
MaxItems == 2       \* most followers a page source holds
MaxLimit == 2       \* largest --limit tried (the smallest is -1)
MaxPage == 2        \* largest page size of a page source
MaxLines == 3       \* longest credentials file

Targets == {"A", "B"}

Min(a, b) == IF a < b THEN a ELSE b

\* Python's None for an optional integer, and a present value.
NoneV == [some |-> FALSE, v |-> 0]
Some(x) == [some |-> TRUE, v |-> x]

\* Python's None for a file path.
NoPath == <<>>

VARIABLES
    \* ---- get_followers.py
    usernames,      \* args.usernames
    limit,          \* args.limit
    pc,             \* position of the run
    i,              \* 1-based index of the target being processed
    user,           \* result of api.user_by_login, or NoUser
    src,            \* number of items the target's page source holds
    cursor,         \* TargetQuery.page_cursor
    followers,      \* items gathered so far for the target
    exc,            \* exception in flight inside get_followers, or "none"
    written,        \* artifact kinds written during the current collection
    disk,           \* artifact files that exist
    result,         \* the dict get_followers returned last, or NoResult
    all_results,    \* get_followers_multiple's all_results
    summary_file,   \* rows of followers_summary.csv, or NoFile
    summary_writes, \* number of times the summary file was written
    cancel_requested, \* an external cancellation was delivered
    faults,         \* history: per processed target, the exception it raised
    log,            \* history: "start" / "end" of a collection, "pause"
    \* ---- add_account.py
    file,           \* lines of accounts.txt
    lines,          \* the stripped non-blank lines
    apc,            \* position of add_all_from_file
    ln,             \* 1-based index of the line being processed
    store,          \* the credential store: sequence of Account records
    accounts,       \* result of api.pool.accounts_info()
    latest,         \* history: username -> cookies of the last add, or Absent
    added,          \* history: indices of lines whose account was added
    logged,         \* history: indices of lines followed by a login attempt
    failed,         \* history: indices of lines on which something failed
    tested,         \* history: indices of lines whose test request was issued
    troubleshoot    \* history: indices of lines that took the else branch

fvars == <<usernames, limit, pc, i, user, src, cursor, followers, exc, written,
           disk, result, all_results, summary_file, summary_writes,
           cancel_requested, faults, log>>
avars == <<file, lines, apc, ln, store, accounts, latest, added, logged,
           failed, tested, troubleshoot>>
vars == <<fvars, avars>>

\* ====================================================================
\* get_followers.py
\* ====================================================================

NoResult == [status |-> "none"]
NoFile == <<"no file">>

\* The profile api.user_by_login answers for a target that exists:
\* user.displayname and user.followersCount (the profile's counter, which
\* is not the number of items the followers listing yields).
DisplayName(u) == IF u = "A" THEN "Alice" ELSE "Bob"
FollowersCount(u) == IF u = "A" THEN 10 ELSE 20
User(u) == [displayname |-> DisplayName(u), followersCount |-> FollowersCount(u)]
NoUser == [displayname |-> "", followersCount |-> 0]

\* Exceptions the collaborators raise inside get_followers' try block.
LookupErrors == {"NotFoundError"}
FetchErrors == {"PoolExhausted"}
WriteErrors == {"OSError"}

\* `except Exception` (line 187): asyncio.CancelledError derives from
\* BaseException, every other exception here from Exception.
IsExceptionAll(e) == TRUE
IsExceptionNarrow(e) == e \in LookupErrors
IsException(e) == e # "CancelledError"

\* f"error: {str(e)}" (line 199), on the exceptions of the model.
ErrorStatus(e) ==
    CASE e = "NotFoundError" -> "error: NotFoundError"
      [] e = "PoolExhausted" -> "error: PoolExhausted"
      [] e = "OSError" -> "error: OSError"
      [] OTHER -> "error: "

\* fetch_limit = None if limit <= 0 else limit (line 115)
FetchLimitStrict(l) == IF l < 0 THEN NoneV ELSE Some(l)
FetchLimit(l) == IF l <= 0 THEN NoneV ELSE Some(l)

\* f"{base_filename}.json" / f"{base_filename}.csv" (lines 149, 162, 168)
JsonName(u) == <<"followers", u, "json">>
CsvName(u) == <<"followers", u, "csv">>

\* ---- Paginated Collector: api.followers + gather, from the specification.
\* The page of at most p items that a page source holding total items
\* answers for a cursor (None = start): the items and the next cursor
\* (None = terminal).
PageOf(total, p, cur) ==
    LET pos == IF cur.some THEN cur.v ELSE 0
        n == Min(p, total - pos)
    IN [items |-> [k \in 1..n |-> pos + k],
        next |-> IF pos + p >= total THEN NoneV ELSE Some(pos + p)]

\* The items of a page that are appended: all of them, or as many as the
\* bounded remaining limit allows.
Capped(items, got, fl) ==
    IF fl.some
        THEN SubSeq(items, 1, Min(Len(items), IF fl.v > got THEN fl.v - got ELSE 0))
        ELSE items

\* The loop goes on while the cursor is not terminal and the bounded limit
\* is not reached.
LoopContinues(next, got, fl) == next.some /\ ~(fl.some /\ got >= fl.v)

\* ---- the dicts get_followers returns
SuccessSummary(u, usr, flw) ==
    [username |-> u, display_name |-> usr.displayname,
     total_followers |-> usr.followersCount, fetched_count |-> Len(flw),
     status |-> "success", json_file |-> JsonName(u), csv_file |-> CsvName(u)]

ErrorSummary(u, e) ==
    [username |-> u, display_name |-> "N/A",
     total_followers |-> 0, fetched_count |-> 0,
     status |-> ErrorStatus(e), json_file |-> NoPath, csv_file |-> NoPath]

\* if len(args.usernames) == 1 (line 310)
SingleNever == FALSE
Single == Len(usernames) = 1

\* if i < len(usernames) (line 234)
SleepsAfterAlways(k, n) == k <= n
SleepsAfter(k, n) == k < n

\* Entry of get_followers up to its first await (lines 93-107).
StartGetFollowers(events) ==
    /\ user' = NoUser
    /\ src' = 0
    /\ cursor' = NoneV
    /\ followers' = <<>>
    /\ exc' = "none"
    /\ written' = {}
    /\ result' = NoResult
    /\ log' = log \o events
    /\ pc' = "lookup"

ReturnPrepends(res) ==
    /\ result' = res
    /\ user' = NoUser
    /\ src' = 0
    /\ cursor' = NoneV
    /\ followers' = <<>>
    /\ exc' = "none"
    /\ faults' = Append(faults, exc)
    /\ log' = Append(log, "end")
    /\ IF Single
         THEN /\ pc' = "done"
              /\ UNCHANGED all_results
         ELSE /\ all_results' = <<res>> \o all_results
              /\ pc' = IF SleepsAfter(i, Len(usernames)) THEN "sleep" ELSE "summary"

\* get_followers returns res to its caller and its locals are gone: main (single target, lines
\* 310-319) drops it; get_followers_multiple appends it (line 231) and
\* either sleeps or goes on to the summary (lines 234-238).
Return(res) ==
    /\ result' = res
    /\ user' = NoUser
    /\ src' = 0
    /\ cursor' = NoneV
    /\ followers' = <<>>
    /\ exc' = "none"
    /\ faults' = Append(faults, exc)
    /\ log' = Append(log, "end")
    /\ IF Single
         THEN /\ pc' = "done"
              /\ UNCHANGED all_results
         ELSE /\ all_results' = Append(all_results, res)
              /\ pc' = IF SleepsAfter(i, Len(usernames)) THEN "sleep" ELSE "summary"

\* An exception raised inside the try block reaches the except clause
\* (pc "propagated": an exception has left get_followers, its caller and
\* asyncio.run; pc "raised": the summary file could not be written).
Raise(e) ==
    /\ exc' = e
    /\ pc' = "except"

\* main (lines 307-329): one target -> get_followers, several ->
\* get_followers_multiple (all_results = [], first iteration).
Main ==
    /\ pc = "main"
    /\ i' = 1
    /\ StartGetFollowers(<<"start">>)
    /\ UNCHANGED <<usernames, limit, disk, all_results, summary_file,
                   summary_writes, cancel_requested, faults>>

\* user = await api.user_by_login(username) (lines 108-112)
LookupUser ==
    /\ pc = "lookup"
    /\ \/ \E n \in 0..MaxItems :
            /\ user' = User(usernames[i])
            /\ src' = n
            /\ pc' = "fetch"
            /\ UNCHANGED exc
       \/ \E e \in LookupErrors :
            /\ Raise(e)
            /\ UNCHANGED <<user, src>>
    /\ UNCHANGED <<usernames, limit, i, cursor, followers, written, disk, result,
                   all_results, summary_file, summary_writes, cancel_requested,
                   faults, log>>

\* One page of followers = await gather(api.followers(user.id,
\* limit=fetch_limit)) (lines 115-120).
FetchPage ==
    /\ pc = "fetch"
    /\ \/ \E p \in 1..MaxPage :
            LET fl == FetchLimit(limit)
                page == PageOf(src, p, cursor)
                flw == followers \o Capped(page.items, Len(followers), fl)
            IN /\ followers' = flw
               /\ cursor' = page.next
               /\ pc' = IF LoopContinues(page.next, Len(flw), fl)
                           THEN "fetch" ELSE "write_json"
               /\ UNCHANGED exc
       \/ \E e \in FetchErrors :
            /\ Raise(e)
            /\ UNCHANGED <<cursor, followers>>
    /\ UNCHANGED <<usernames, limit, i, user, src, written, disk, result,
                   all_results, summary_file, summary_writes, cancel_requested,
                   faults, log>>

\* Build results and save the JSON file (lines 122-165).
WriteJson ==
    /\ pc = "write_json"
    /\ \/ /\ written' = written \cup {"json"}
          /\ disk' = disk \cup {JsonName(usernames[i])}
          /\ pc' = "write_csv"
          /\ UNCHANGED exc
       \/ \E e \in WriteErrors :
            /\ Raise(e)
            /\ UNCHANGED <<written, disk>>
    /\ UNCHANGED <<usernames, limit, i, user, src, cursor, followers, result,
                   all_results, summary_file, summary_writes, cancel_requested,
                   faults, log>>

\* Save the CSV file if there are results, then return the success dict
\* (lines 167-185).
WriteCsv ==
    /\ pc = "write_csv"
    /\ \/ /\ followers # <<>>
          /\ written' = written \cup {"csv"}
          /\ disk' = disk \cup {CsvName(usernames[i])}
          /\ Return(SuccessSummary(usernames[i], user, followers))
       \/ /\ followers = <<>>
          /\ Return(SuccessSummary(usernames[i], user, followers))
          /\ UNCHANGED <<written, disk>>
       \/ /\ followers # <<>>
          /\ \E e \in WriteErrors : Raise(e)
          /\ UNCHANGED <<user, src, cursor, followers, written, disk, result,
                         all_results, faults, log>>
    /\ UNCHANGED <<usernames, limit, i, summary_file, summary_writes,
                   cancel_requested>>

\* except Exception as e: ... return the error dict (lines 187-202). An
\* exception the clause does not match leaves get_followers, its caller and
\* asyncio.run.
GetFollowersExcept ==
    /\ pc = "except"
    /\ IF IsException(exc)
         THEN Return(ErrorSummary(usernames[i], exc))
         ELSE /\ pc' = "propagated"
              /\ UNCHANGED <<user, src, cursor, followers, exc, result,
                             all_results, faults, log>>
    /\ UNCHANGED <<usernames, limit, i, written, disk, summary_file,
                   summary_writes, cancel_requested>>

\* await asyncio.sleep(2), then the next iteration of the loop up to its
\* first await (lines 223-236).
Sleep ==
    /\ pc = "sleep"
    /\ i' = i + 1
    /\ StartGetFollowers(<<"pause", "start">>)
    /\ UNCHANGED <<usernames, limit, disk, all_results, summary_file,
                   summary_writes, cancel_requested, faults>>

\* Create the summary file and return all_results (lines 238-259).
WriteSummary ==
    /\ pc = "summary"
    /\ \/ /\ summary_file' = all_results
          /\ summary_writes' = summary_writes + 1
          /\ pc' = "done"
       \/ /\ pc' = "raised"
          /\ UNCHANGED <<summary_file, summary_writes>>
    /\ UNCHANGED <<usernames, limit, i, user, src, cursor, followers, exc,
                   written, disk, result, all_results, cancel_requested,
                   faults, log>>

\* External cancellation of the task while it is suspended in an await:
\* CancelledError is raised at user_by_login / gather (inside the try block)
\* or at asyncio.sleep (outside it).
Cancel ==
    /\ pc \in {"lookup", "fetch", "sleep"}
    /\ ~cancel_requested
    /\ cancel_requested' = TRUE
    /\ exc' = "CancelledError"
    /\ pc' = IF pc = "sleep" THEN "propagated" ELSE "except"
    /\ UNCHANGED <<usernames, limit, i, user, src, cursor, followers, written,
                   disk, result, all_results, summary_file, summary_writes,
                   faults, log>>

\* Sequences over S of length lo..hi.
SeqsOf(S, lo, hi) == UNION {[1..n -> S] : n \in lo..hi}

AccountsIdle ==
    /\ file = <<>>
    /\ lines = <<>>
    /\ apc = "idle"
    /\ ln = 0
    /\ store = <<>>
    /\ accounts = <<>>
    /\ latest = <<>>
    /\ added = {}
    /\ logged = {}
    /\ failed = {}
    /\ tested = {}
    /\ troubleshoot = {}

\* The command line: nargs="+" targets, --limit (lines 279-307).
Init ==
    /\ usernames \in SeqsOf(Targets, 1, MaxTargets)
    /\ limit \in (-1)..MaxLimit
    /\ pc = "main"
    /\ i = 0
    /\ user = NoUser
    /\ src = 0
    /\ cursor = NoneV
    /\ followers = <<>>
    /\ exc = "none"
    /\ written = {}
    /\ disk = {}
    /\ result = NoResult
    /\ all_results = <<>>
    /\ summary_file = NoFile
    /\ summary_writes = 0
    /\ cancel_requested = FALSE
    /\ faults = <<>>
    /\ log = <<>>
    /\ AccountsIdle

Next ==
    \/ Main /\ UNCHANGED avars
    \/ LookupUser /\ UNCHANGED avars
    \/ FetchPage /\ UNCHANGED avars
    \/ WriteJson /\ UNCHANGED avars
    \/ WriteCsv /\ UNCHANGED avars
    \/ GetFollowersExcept /\ UNCHANGED avars
    \/ Sleep /\ UNCHANGED avars
    \/ WriteSummary /\ UNCHANGED avars
    \/ Cancel /\ UNCHANGED avars

Spec == Init /\ [][Next]_vars

\* ====================================================================
\* add_account.py
\* ====================================================================

AccUsers == {"u1", "u2"}
Tokens == {"t1", "t2"}

\* A line of accounts.txt after strip(), as its ":"-separated fields; a
\* blank line has none.
BlankLine == <<>>
GoodLines == {<<u, t, "ct0">> : u \in AccUsers, t \in Tokens}
BadLines == {<<"u1", "t1">>, <<"u2", "t2", "ct0", "x">>}
LineKinds == {BlankLine} \cup GoodLines \cup BadLines

\* lines = [line.strip() for line in f if line.strip()] (line 103)
NonBlank(l) == l # BlankLine
StrippedLines(f) == SelectSeq(f, NonBlank)

\* username, auth_token, ct0 = line.split(":") raises ValueError unless
\* there are exactly three fields (line 107).
Unpacks(l) == Len(l) = 3

\* except ValueError (line 108)
ParseCatchesWrong(e) == e = "KeyError"
ParseCatches(e) == e = "ValueError"

\* except Exception (lines 41, 59, 88)
CatchesNothing(e) == FALSE
Catches(e) == e # "CancelledError"

\* cookies = f"auth_token={auth_token}; ct0={ct0}" (line 112)
CookiesOf(l) == <<"auth_token", l[2], "ct0", l[3]>>
Absent == <<>>

CurUser == lines[ln][1]
CurCookies == CookiesOf(lines[ln])

\* ---- Credential Store and Session Activator: api.pool, from the
\* specification.
Account(u, c) == [username |-> u, cookies |-> c, status |-> "unchecked"]

HasAccount(st, u) == \E k \in 1..Len(st) : st[k].username = u

\* remove(username): deletes the record if present; no-op if absent.
StoreRemove(st, u) ==
    LET Keep(a) == a.username # u IN SelectSeq(st, Keep)

\* add(account): inserts or replaces the record keyed by username; list()
\* is in insertion order.
StoreAdd(st, acc) ==
    IF HasAccount(st, acc.username)
        THEN [k \in 1..Len(st) |->
                IF st[k].username = acc.username THEN acc ELSE st[k]]
        ELSE Append(st, acc)

\* activate_all(): every account that is unchecked or faulty ends active
\* (its session was established: it is in ok) or faulty.
ActivateAll(st, ok) ==
    [k \in 1..Len(st) |->
        IF st[k].status = "active" THEN st[k]
        ELSE [st[k] EXCEPT !.status =
                IF st[k].username \in ok THEN "active" ELSE "faulty"]]

\* accounts_info(): one dict per record, in list() order.
AccountsInfo(st) ==
    [k \in 1..Len(st) |->
        [username |-> st[k].username, active |-> st[k].status = "active"]]

\* if accounts and accounts[0]["active"] (line 76)
TestsAccount(accs) == accs # <<>> /\ accs[1].active

\* The for loop goes to its next line, or add_all_from_file returns.
Advance ==
    /\ ln' = ln + 1
    /\ apc' = IF ln + 1 <= Len(lines) THEN "line" ELSE "done"

\* with open(filepath) ...: lines = [...] (lines 102-103)
ReadFile ==
    /\ apc = "start"
    /\ lines' = StrippedLines(file)
    /\ ln' = 1
    /\ apc' = IF Len(StrippedLines(file)) >= 1 THEN "line" ELSE "done"
    /\ UNCHANGED <<file, store, accounts, latest, added, logged, failed,
                   tested, troubleshoot>>

\* One iteration up to the first await of add_account_with_cookies, or the
\* skip of a malformed line (lines 105-113, 24-37).
ParseLine ==
    /\ apc = "line"
    /\ IF Unpacks(lines[ln])
         THEN apc' = "remove" /\ UNCHANGED <<ln, failed>>
         ELSE /\ failed' = failed \cup {ln}
              /\ IF ParseCatches("ValueError")
                   THEN Advance
                   ELSE apc' = "raised" /\ UNCHANGED ln
    /\ UNCHANGED <<file, lines, store, accounts, latest, added, logged, tested,
                   troubleshoot>>

\* try: await api.pool.delete_accounts(username) except Exception
\* (lines 36-42)
RemoveOld ==
    /\ apc = "remove"
    /\ \/ /\ store' = StoreRemove(store, CurUser)
          /\ latest' = [latest EXCEPT ![CurUser] = Absent]
          /\ apc' = "add"
          /\ UNCHANGED failed
       \/ /\ apc' = IF Catches("DbError") THEN "add" ELSE "raised"
          /\ failed' = failed \cup {ln}
          /\ UNCHANGED <<store, latest>>
    /\ UNCHANGED <<file, lines, ln, accounts, added, logged, tested,
                   troubleshoot>>

\* await api.pool.add_account(...) (lines 44-52)
AddAccountThenRemove ==
    /\ apc = "add"
    /\ store' = StoreRemove(StoreAdd(store, Account(CurUser, CurCookies)), CurUser)
    /\ latest' = [latest EXCEPT ![CurUser] = CurCookies]
    /\ added' = added \cup {ln}
    /\ apc' = "login"
    /\ UNCHANGED <<file, lines, ln, accounts, logged, failed, tested,
                   troubleshoot>>

AddAccount ==
    /\ apc = "add"
    /\ store' = StoreAdd(store, Account(CurUser, CurCookies))
    /\ latest' = [latest EXCEPT ![CurUser] = CurCookies]
    /\ added' = added \cup {ln}
    /\ apc' = "login"
    /\ UNCHANGED <<file, lines, ln, accounts, logged, failed, tested,
                   troubleshoot>>

\* try: await api.pool.login_all() except Exception (lines 54-60)
LoginAll ==
    /\ apc = "login"
    /\ logged' = logged \cup {ln}
    /\ \/ \E ok \in SUBSET {store[k].username : k \in 1..Len(store)} :
            /\ store' = ActivateAll(store, ok)
            /\ failed' = IF CurUser \in ok THEN failed ELSE failed \cup {ln}
            /\ apc' = "status"
       \/ /\ apc' = IF Catches("LoginError") THEN "status" ELSE "raised"
          /\ failed' = failed \cup {ln}
          /\ UNCHANGED store
    /\ UNCHANGED <<file, lines, ln, accounts, latest, added, tested,
                   troubleshoot>>

\* accounts = await api.pool.accounts_info(); the status print-out; the
\* branch on accounts[0]["active"] up to the await of the test request, or
\* the troubleshooting print-out (lines 62-81, 90-96).
CheckStatus ==
    /\ apc = "status"
    /\ accounts' = AccountsInfo(store)
    /\ IF TestsAccount(AccountsInfo(store))
         THEN /\ tested' = tested \cup {ln}
              /\ apc' = "test"
              /\ UNCHANGED <<ln, troubleshoot>>
         ELSE /\ troubleshoot' = troubleshoot \cup {ln}
              /\ Advance
              /\ UNCHANGED tested
    /\ UNCHANGED <<file, lines, store, latest, added, logged, failed>>

\* try: user = await api.user_by_login(username) except Exception
\* (lines 80-89)
TestAccount ==
    /\ apc = "test"
    /\ \/ Advance /\ UNCHANGED failed
       \/ /\ failed' = failed \cup {ln}
          /\ IF Catches("PoolExhausted")
               THEN Advance
               ELSE apc' = "raised" /\ UNCHANGED ln
    /\ UNCHANGED <<file, lines, store, accounts, latest, added, logged, tested,
                   troubleshoot>>

FollowersIdle ==
    /\ usernames = <<>>
    /\ limit = 0
    /\ pc = "idle"
    /\ i = 0
    /\ user = NoUser
    /\ src = 0
    /\ cursor = NoneV
    /\ followers = <<>>
    /\ exc = "none"
    /\ written = {}
    /\ disk = {}
    /\ result = NoResult
    /\ all_results = <<>>
    /\ summary_file = NoFile
    /\ summary_writes = 0
    /\ cancel_requested = FALSE
    /\ faults = <<>>
    /\ log = <<>>

\* asyncio.run(add_all_from_file()) on a credentials file (line 117).
InitAccounts ==
    /\ file \in SeqsOf(LineKinds, 0, MaxLines)
    /\ lines = <<>>
    /\ apc = "start"
    /\ ln = 0
    /\ store = <<>>
    /\ accounts = <<>>
    /\ latest = [u \in AccUsers |-> Absent]
    /\ added = {}
    /\ logged = {}
    /\ failed = {}
    /\ tested = {}
    /\ troubleshoot = {}
    /\ FollowersIdle

NextAccounts ==
    \/ ReadFile /\ UNCHANGED fvars
    \/ ParseLine /\ UNCHANGED fvars
    \/ RemoveOld /\ UNCHANGED fvars
    \/ AddAccount /\ UNCHANGED fvars
    \/ LoginAll /\ UNCHANGED fvars
    \/ CheckStatus /\ UNCHANGED fvars
    \/ TestAccount /\ UNCHANGED fvars

SpecAccounts == InitAccounts /\ [][NextAccounts]_vars

\* ====================================================================
\* Properties
\* ====================================================================

StatusOf(e) == IF e = "none" THEN "success" ELSE ErrorStatus(e)

Count(seq, x) == Cardinality({k \in 1..Len(seq) : seq[k] = x})

\* C1: in a run over several targets every failure while collecting a
\* target (lookup, pool exhausted during the fetch, writing its artifacts)
\* ends as that target's status "error: <reason>", a target without a
\* failure gets "success", and no such failure leaves the run: the only
\* exception that leaves get_followers is an external cancellation, so a
\* run that is not cancelled collects every target.
C1_FailureIsolated ==
    Len(usernames) > 1 =>
        /\ Len(faults) = Len(all_results)
        /\ \A k \in 1..Len(all_results) :
              all_results[k].status = StatusOf(faults[k])
        /\ pc = "propagated" => (cancel_requested /\ exc = "CancelledError")
        /\ pc \in {"summary", "done", "raised"} =>
              Len(all_results) = Len(usernames)

\* Of three targets the second failed its lookup, the others succeeded.
C1_Witness ==
    /\ pc = "done"
    /\ Len(all_results) = 3
    /\ all_results[1].status = "success"
    /\ all_results[2].status = "error: NotFoundError"
    /\ all_results[3].status = "success"

\* A step leaves all_results alone or appends one entry to it.
C2_Appended ==
    \/ all_results' = all_results
    \/ /\ Len(all_results') = Len(all_results) + 1
       /\ SubSeq(all_results', 1, Len(all_results)) = all_results

\* C2: the result list of a run over several targets only ever grows by
\* one entry at its end, its k-th entry is the summary of the k-th target,
\* and when the run finishes it has one entry per target.
C2_InputOrder ==
    /\ [](Len(usernames) > 1 =>
            /\ Len(all_results) <= Len(usernames)
            /\ \A k \in 1..Len(all_results) :
                  all_results[k].username = usernames[k]
            /\ pc = "done" => Len(all_results) = Len(usernames))
    /\ [][C2_Appended]_vars

\* A list with a duplicate whose first target failed.
C2_Witness ==
    /\ pc = "done"
    /\ usernames = <<"B", "A", "B">>
    /\ Len(all_results) = 3
    /\ all_results[1].status # "success"
    /\ all_results[3].status = "success"

\* The number of items a collection is to return.
Expected(l, n) == IF l > 0 THEN Min(l, n) ELSE n

\* A step that returns a success summary reports that number.
C3_Returned ==
    (result' # result /\ result'.status = "success") =>
        result'.fetched_count = Expected(limit, src)

\* C3: with a page source of src items, once the fetch has returned the
\* number of items gathered is min(limit, src) for limit > 0 and src for
\* limit <= 0, a bounded limit is never exceeded while pages are appended,
\* and the success summary's fetched_count is that number.
C3_Limit ==
    /\ []((pc \in {"fetch", "write_json", "write_csv"} /\ limit > 0) =>
            Len(followers) <= limit)
    /\ [](pc \in {"write_json", "write_csv"} =>
            Len(followers) = Expected(limit, src))
    /\ [][C3_Returned]_vars

\* The only page fetched held two items and one was kept.
C3_Witness ==
    /\ pc = "write_json"
    /\ limit = 1
    /\ src = 2
    /\ followers = <<1>>
    /\ ~cursor.some

\* A collection has started and not ended.
InFlight == log # <<>> /\ log[Len(log)] = "start"

\* C4 (as stated): a run over several targets cancelled while a target is
\* being collected has written the summaries of the completed targets
\* followed by one for the target in flight with status "cancelled".
C4_CancelledSummaryEmitted ==
    (Len(usernames) > 1 /\ cancel_requested /\ pc = "propagated" /\ InFlight) =>
        /\ summary_file # NoFile
        /\ Len(summary_file) = Len(all_results) + 1
        /\ SubSeq(summary_file, 1, Len(all_results)) = all_results
        /\ summary_file[Len(summary_file)].status = "cancelled"

\* C4 (amended): an external cancellation is not caught by get_followers:
\* it leaves the run, the target in flight gets no summary, no summary has
\* status "cancelled", the summary file is not written; the summaries and
\* the JSON files of the targets completed before are what is left.
C4_CancelPropagates ==
    cancel_requested =>
        /\ pc \in {"except", "propagated"}
        /\ exc = "CancelledError"
        /\ summary_file = NoFile
        /\ summary_writes = 0
        /\ result.status # "cancelled"
        /\ \A k \in 1..Len(all_results) :
              /\ all_results[k].status # "cancelled"
              /\ all_results[k].status = "success" =>
                    all_results[k].json_file \in disk
        /\ (Len(usernames) > 1 /\ InFlight) => Len(all_results) = i - 1

\* The third target was cancelled in flight after two completed ones.
C4_Witness ==
    /\ cancel_requested
    /\ pc = "propagated"
    /\ InFlight
    /\ Len(usernames) = 3
    /\ Len(all_results) = 2

\* C5 (as stated): every completed run has written the summary file
\* exactly once, with one row per target.
C5_SummaryAlways ==
    pc = "done" =>
        /\ summary_writes = 1
        /\ summary_file # NoFile
        /\ Len(summary_file) = Len(usernames)

\* C5 (amended): a completed run over two or more targets has written the
\* summary file exactly once, after the last target, with the rows of
\* all_results, one per target; a completed run over exactly one target
\* has written no summary file.
C5_SummaryForSeveral ==
    /\ summary_writes <= 1
    /\ summary_writes = 1 =>
          /\ Len(all_results) = Len(usernames)
          /\ summary_file = all_results
    /\ (pc = "done" /\ Len(usernames) > 1) =>
          /\ summary_writes = 1
          /\ Len(summary_file) = Len(usernames)
    /\ (pc = "done" /\ Len(usernames) = 1) =>
          /\ summary_writes = 0
          /\ summary_file = NoFile

\* Every target failed and the summary was written.
C5_Witness ==
    /\ pc = "done"
    /\ Len(usernames) = 2
    /\ summary_writes = 1
    /\ \A k \in 1..Len(summary_file) : summary_file[k].status # "success"

\* C8: in the history of a run a collection starts either first or right
\* after a pause, ends before anything else happens, a pause comes right
\* after the end of a collection and is followed by the start of the next
\* one; the run pauses only when a target is left, so that a finished run
\* over n targets has seen n collections and n - 1 pauses.
C8_OnePauseBetween ==
    /\ \A k \in 1..Len(log) :
          /\ log[k] = "start" => (k = 1 \/ log[k - 1] = "pause")
          /\ log[k] = "end" => (k > 1 /\ log[k - 1] = "start")
          /\ log[k] = "pause" =>
                (k > 1 /\ log[k - 1] = "end" /\ k < Len(log) /\ log[k + 1] = "start")
    /\ pc = "sleep" => (i < Len(usernames) /\ log[Len(log)] = "end")
    /\ Count(log, "start") - Count(log, "end") \in {0, 1}
    /\ pc \in {"summary", "done", "raised"} =>
          /\ Count(log, "start") = Len(usernames)
          /\ Count(log, "end") = Len(usernames)
          /\ Count(log, "pause") = Len(usernames) - 1

\* The first target failed and the pauses were taken all the same.
C8_Witness ==
    /\ pc = "done"
    /\ Len(usernames) = 3
    /\ faults[1] # "none"
    /\ log = <<"start", "end", "pause", "start", "end", "pause", "start", "end">>

\* C10 (as stated): a summary names an artifact exactly when that file was
\* written during the target's collection.
C10_PathsNameWrittenFiles ==
    result # NoResult =>
        /\ result.json_file # NoPath <=> "json" \in written
        /\ result.csv_file # NoPath <=> "csv" \in written

\* C6: the store holds at most one record per username, and it is the
\* record of the last add of that username unless a remove followed it.
C6_NetEffect ==
    \A u \in AccUsers :
        /\ Cardinality({k \in 1..Len(store) : store[k].username = u}) <= 1
        /\ latest[u] = Absent => ~HasAccount(store, u)
        /\ latest[u] # Absent =>
              \E k \in 1..Len(store) :
                  store[k].username = u /\ store[k].cookies = latest[u]

\* The second line added a username the first line had added, with other
\* cookies.
C6_Witness ==
    /\ apc = "done"
    /\ Len(lines) = 2
    /\ Unpacks(lines[1]) /\ Unpacks(lines[2])
    /\ lines[1][1] = lines[2][1]
    /\ lines[1][2] # lines[2][2]
    /\ Len(store) = 1
    /\ store[1].cookies = CookiesOf(lines[2])

\* C7: no failure on a line leaves add_all_from_file: it never ends by an
\* exception, and every well-formed line before the current one, all of
\* them once the run is over, was added and followed by a login attempt.
C7_FailuresIsolated ==
    /\ apc # "raised"
    /\ \A k \in 1..Len(lines) :
          (Unpacks(lines[k]) /\ (k < ln \/ apc = "done")) =>
              (k \in added /\ k \in logged)
    /\ apc = "done" => ln = Len(lines) + 1

\* Something failed on each of the first two lines and the third was added.
C7_Witness ==
    /\ apc = "done"
    /\ Len(lines) = 3
    /\ ~Unpacks(lines[1])
    /\ {1, 2} \subseteq failed
    /\ {2, 3} \subseteq added
    /\ {2, 3} \subseteq logged

IsActive(st, u) ==
    \E k \in 1..Len(st) : st[k].username = u /\ st[k].status = "active"

\* C9 (as stated): the test request is awaited only while the account that
\* was just added is active, and a line that took the troubleshooting
\* branch issued no test request.
C9_TestsOnlyActiveAccount ==
    /\ apc = "test" => IsActive(store, CurUser)
    /\ \A k \in troubleshoot : k \notin tested

====
